---- MODULE Spec2Model ----
(***************************************************************************)
(* A model of the rust_matrix crate: the dense matrix, its constructors,   *)
(* the checked accessors, and the iterator family.                         *)
(*                                                                         *)
(* The crate is generic over the coordinate type I.  The model runs it at  *)
(* the two narrowest coordinate types the crate implements Unit and        *)
(* CheckedMul for, i8 and u8, so that the arithmetic the code does in I    *)
(* keeps its width.  An arithmetic result that does not fit I panics in a  *)
(* build with overflow checks (debug) and wraps in one without (release):  *)
(* the build is chosen in Init and both outcomes are explored.             *)
(*                                                                         *)
(* A behaviour is one program run: it constructs a matrix, then calls the  *)
(* accessors and iterators on it.  A panic ends the run.                   *)
(***************************************************************************)
EXTENDS Integers, Sequences, FiniteSets, TLC

VARIABLES
    coord,      \* the coordinate type I: "i8" or "u8"
    checks,     \* TRUE: the build panics on integer overflow; FALSE: it wraps
    call,       \* the arguments new_matrix was called with
    matrix,     \* what the constructor returned: Ok(DenseMatrix), Err(msg), or nothing yet
    copy,       \* the clone of the matrix the program holds: Ok(DenseMatrix), or nothing yet
    acc,        \* the Row / Column accessor the program holds
    it,         \* the iterator the program holds
    ret,        \* what the last call returned
    front,      \* the items next has yielded on the live iterator, in order
    rear,       \* the items next_back has yielded on the live iterator, in order
    exhausted,  \* the live iterator has returned None at least once
    underflow,  \* some subtraction in I had a mathematical result below zero
    fault       \* "" while running, else the panic that ended the run

vars == <<coord, checks, call, matrix, copy, acc, it, ret, front, rear, exhausted, underflow, fault>>

(***************************************************************************)
(* Bounds of the model.                                                    *)
(***************************************************************************)
\* Small matrices are built with every row count in -1..MaxRows ...
MaxRows == 3
\* ... and every data length in 0..MaxLen, with every small data pattern.
MaxLen == 4
\* At most MaxViews transposed views are stacked on a dense matrix ...
MaxViews == 1
\* ... and at most MaxNested where views are taken of views.
MaxNested == 2

\* The cell values of a small matrix.
Values == {0, 1}

(***************************************************************************)
(* Coordinate arithmetic (the Add, Sub, Mul, PartialOrd, TryInto<usize>    *)
(* and TryFrom<usize> the Coordinate trait requires), at the width of I.   *)
(***************************************************************************)
IsSigned == coord = "i8"

IMin == IF IsSigned THEN -128 ELSE 0

IMax == IF IsSigned THEN 127 ELSE 255

Fits(x) == IMin <= x /\ x <= IMax

Wrap(x) == IF IsSigned THEN ((x + 128) % 256) - 128 ELSE x % 256

\* The outcome of evaluating in I an expression whose mathematical value is x.
Arith(x) ==
    IF Fits(x) THEN [panic |-> FALSE, v |-> x]
    ELSE IF checks THEN [panic |-> TRUE, v |-> 0]
    ELSE [panic |-> FALSE, v |-> Wrap(x)]

unit == 1

zero == Arith(unit - unit).v

(***************************************************************************)
(* Results.  An Option or a panicking call is an outcome record; the item  *)
(* of a Some is a tuple: <<row, column>> for an address, <<offset, value>> *)
(* for a reference to the cell stored at that offset of the data vector,   *)
(* <<index>> for a Row or Column accessor.                                 *)
(***************************************************************************)
None == [kind |-> "None", item |-> <<>>]

Some(x) == [kind |-> "Some", item |-> x]

Panic(m) == [kind |-> "Panic", item |-> <<>>, msg |-> m]

\* crate::error::Error, the message kept as its format string and arguments.
Error_new(m, a) == [tag |-> "Err", msg |-> m, args |-> a]

Ok(m) == [tag |-> "Ok", m |-> m]

Aborted(m) == [tag |-> "Panic", msg |-> m]

NoMatrix == [tag |-> "none"]

MatrixAddress(r, c) == [row |-> r, column |-> c]

(***************************************************************************)
(* The two stores behind a &dyn Matrix: a DenseMatrix, a record of its     *)
(* three fields, and a TransposedMatrix, a record of its one field, the    *)
(* store it borrows.  A call through &dyn Matrix (row_count, get, index,   *)
(* ...) dispatches on which of the two the record is.                      *)
(***************************************************************************)
DenseMatrix_new(columns, rows, data) == [columns |-> columns, rows |-> rows, data |-> data]

\* new_transposed_matrix
new_transposed_matrix(underlay) == [underlay |-> underlay]

IsTransposed(m) == "underlay" \in DOMAIN m

\* transpose that takes both coordinates from the column.
transpose_ColumnTwice(self) == MatrixAddress(self.column, self.column)

\* MatrixAddress::transpose
transpose(self) == MatrixAddress(self.column, self.row)

RECURSIVE row_count(_)
RECURSIVE column_count(_)
RECURSIVE range(_)
RECURSIVE get(_, _)
RECURSIVE get_mut(_, _)
RECURSIVE index(_, _)
RECURSIVE index_mut(_, _)

\* Index<Dimension> for MatrixAddress: dimension 0 is the column, 1 the row.
AddressIndex(a, d) == IF d = 0 THEN a.column ELSE a.row

\* contains with the end of the range taken as inclusive.
contains_EndInclusive(m, address) ==
    \A d \in 0..1 :
        /\ AddressIndex(address, d) >= AddressIndex(range(m).start, d)
        /\ AddressIndex(address, d) <= AddressIndex(range(m).end, d)

\* Tensor::contains: every dimension lies in the half-open range.
contains(m, address) ==
    \A d \in 0..1 :
        /\ AddressIndex(address, d) >= AddressIndex(range(m).start, d)
        /\ AddressIndex(address, d) < AddressIndex(range(m).end, d)

DenseMatrix_row_count(self) == self.rows

DenseMatrix_column_count(self) == self.columns

\* Tensor::range of a dense matrix: start is the default address, end holds the counts.
DenseMatrix_range(self) ==
    [start |-> MatrixAddress(0, 0),
     end |-> MatrixAddress(self.rows, self.columns)]

\* DenseMatrix::index_address: row * columns + column in I, then try_into usize.
index_address(m, address) ==
    LET prod == Arith(address.row * m.columns)
        sum == Arith(prod.v + address.column)
    IN  IF prod.panic THEN Panic("attempt to multiply with overflow")
        ELSE IF sum.panic THEN Panic("attempt to add with overflow")
        ELSE IF sum.v < 0 THEN Panic("address overflows usize.  This should be unreachable.")
        ELSE Some(<<sum.v>>)

\* Vec::get: the cell at a zero-based offset, None past the end.
VecGet(data, off) == IF off < Len(data) THEN Some(<<off, data[off + 1]>>) ELSE None

\* Vec::get_mut: a mutable reference to the same cell, None past the end.
VecGetMut(data, off) == IF off < Len(data) THEN Some(<<off, data[off + 1]>>) ELSE None

\* DenseMatrix::get
DenseMatrix_get(self, address) ==
    IF ~contains(self, address) THEN None
    ELSE LET addr == index_address(self, address)
         IN  IF addr.kind = "Panic" THEN addr ELSE VecGet(self.data, addr.item[1])

\* DenseMatrix::get_mut
DenseMatrix_get_mut(self, address) ==
    IF ~contains(self, address) THEN None
    ELSE LET addr == index_address(self, address)
         IN  IF addr.kind = "Panic" THEN addr ELSE VecGetMut(self.data, addr.item[1])

\* Index for DenseMatrix: get, panicking on None.
DenseMatrix_index(self, address) ==
    LET g == get(self, address)
    IN  IF g.kind = "None" THEN Panic("out of range index via Index trait") ELSE g

\* IndexMut for DenseMatrix: get_mut, panicking on None.
DenseMatrix_index_mut(self, address) ==
    LET g == get_mut(self, address)
    IN  IF g.kind = "None" THEN Panic("out of range index via IndexMut trait") ELSE g

\* TransposedMatrix::range
TransposedMatrix_range(self) ==
    LET under == range(self.underlay)
    IN  [start |-> under.start, end |-> transpose(under.end)]

\* TransposedMatrix::get that forwards the address as it is given.
TransposedMatrix_get_AddressKept(self, address) == get(self.underlay, address)

\* TransposedMatrix::get
TransposedMatrix_get(self, address) == get(self.underlay, transpose(address))

\* TransposedMatrix::get_mut
TransposedMatrix_get_mut(self, address) == get_mut(self.underlay, transpose(address))

\* Index for TransposedMatrix
TransposedMatrix_index(self, address) == index(self.underlay, transpose(address))

\* IndexMut for TransposedMatrix
TransposedMatrix_index_mut(self, address) == index_mut(self.underlay, transpose(address))

TransposedMatrix_row_count(self) == column_count(self.underlay)

TransposedMatrix_column_count(self) == row_count(self.underlay)

\* The calls through &dyn Matrix.
row_count(m) ==
    IF IsTransposed(m) THEN TransposedMatrix_row_count(m) ELSE DenseMatrix_row_count(m)

column_count(m) ==
    IF IsTransposed(m) THEN TransposedMatrix_column_count(m) ELSE DenseMatrix_column_count(m)

range(m) == IF IsTransposed(m) THEN TransposedMatrix_range(m) ELSE DenseMatrix_range(m)

get(m, address) ==
    IF IsTransposed(m) THEN TransposedMatrix_get(m, address) ELSE DenseMatrix_get(m, address)

get_mut(m, address) ==
    IF IsTransposed(m) THEN TransposedMatrix_get_mut(m, address)
    ELSE DenseMatrix_get_mut(m, address)

index(m, address) ==
    IF IsTransposed(m) THEN TransposedMatrix_index(m, address) ELSE DenseMatrix_index(m, address)

index_mut(m, address) ==
    IF IsTransposed(m) THEN TransposedMatrix_index_mut(m, address)
    ELSE DenseMatrix_index_mut(m, address)

\* Clone for DenseMatrix that copies the counts and leaves the data vector empty.
clone_DataLeftEmpty(self) == DenseMatrix_new(self.columns, self.rows, <<>>)

\* Clone for DenseMatrix: the counts, and a clone of the data vector.
clone(self) == DenseMatrix_new(self.columns, self.rows, self.data)

\* PartialEq for DenseMatrix: the counts, then the data vectors.
eq(self, other) ==
    IF self.rows # other.rows THEN FALSE
    ELSE IF self.columns # other.columns THEN FALSE
    ELSE self.data = other.data

(***************************************************************************)
(* factories.rs                                                            *)
(***************************************************************************)
\* rows.try_into() for usize: fails on a negative value.
TryIntoUsize(x) == IF x < 0 THEN None ELSE Some(<<x>>)

\* usize.try_into() for I: fails above I's maximum.
TryFromUsize(n) == IF n > IMax THEN None ELSE Some(<<n>>)

\* new_matrix without its test for a negative row count.
new_matrix_NoSignTest(rows, data) ==
    IF TryIntoUsize(rows).kind = "None"
        THEN Error_new("row count cannot be coerced to usize", <<>>)
    ELSE LET row_usize == TryIntoUsize(rows).item[1]
             len == Len(data)
         IN  IF len = 0 /\ rows = zero THEN Ok(DenseMatrix_new(zero, zero, data))
             ELSE IF len = 0 THEN Error_new("missing row data", <<>>)
             ELSE IF row_usize = 0
                 THEN Aborted("attempt to calculate the remainder with a divisor of zero")
             ELSE IF len % row_usize # 0
                 THEN Error_new("data length {} is not a multiple of rows ({})", <<len, row_usize>>)
             ELSE LET columns == TryFromUsize(len \div row_usize)
                  IN  IF columns.kind = "None"
                          THEN Error_new("cannot convert columns back to I", <<>>)
                      ELSE Ok(DenseMatrix_new(columns.item[1], rows, data))

\* new_matrix that takes empty data with any row count.
new_matrix_EmptyDataAccepted(rows, data) ==
    IF rows < zero THEN Error_new("negative row count not supported", <<>>)
    ELSE IF TryIntoUsize(rows).kind = "None"
        THEN Error_new("row count cannot be coerced to usize", <<>>)
    ELSE LET row_usize == TryIntoUsize(rows).item[1]
             len == Len(data)
         IN  IF len = 0 THEN Ok(DenseMatrix_new(zero, rows, data))
             ELSE IF row_usize = 0
                 THEN Aborted("attempt to calculate the remainder with a divisor of zero")
             ELSE IF len % row_usize # 0
                 THEN Error_new("data length {} is not a multiple of rows ({})", <<len, row_usize>>)
             ELSE LET columns == TryFromUsize(len \div row_usize)
                  IN  IF columns.kind = "None"
                          THEN Error_new("cannot convert columns back to I", <<>>)
                      ELSE Ok(DenseMatrix_new(columns.item[1], rows, data))

new_matrix(rows, data) ==
    IF rows < zero THEN Error_new("negative row count not supported", <<>>)
    ELSE IF TryIntoUsize(rows).kind = "None"
        THEN Error_new("row count cannot be coerced to usize", <<>>)
    ELSE LET row_usize == TryIntoUsize(rows).item[1]
             len == Len(data)
         IN  IF len = 0 /\ rows = zero THEN Ok(DenseMatrix_new(zero, zero, data))
             ELSE IF len = 0 THEN Error_new("missing row data", <<>>)
             ELSE IF row_usize = 0
                 THEN Aborted("attempt to calculate the remainder with a divisor of zero")
             ELSE IF len % row_usize # 0
                 THEN Error_new("data length {} is not a multiple of rows ({})", <<len, row_usize>>)
             ELSE LET columns == TryFromUsize(len \div row_usize)
                  IN  IF columns.kind = "None"
                          THEN Error_new("cannot convert columns back to I", <<>>)
                      ELSE Ok(DenseMatrix_new(columns.item[1], rows, data))

\* Internals::checked_multiply_unsigned: the product in u64, then try_into usize.
\* Two 8-bit operands have a product below 2^16, which both conversions take.
checked_multiply_unsigned(lhs, rhs) == Some(<<lhs * rhs>>)

\* Internals::checked_multiply_signed: None for a negative operand, else as above.
checked_multiply_signed(lhs, rhs) ==
    IF lhs < 0 \/ rhs < 0 THEN None ELSE Some(<<lhs * rhs>>)

\* CheckedMul for i8 / u8
checked_multiply(self, rhs) ==
    IF IsSigned THEN checked_multiply_signed(self, rhs) ELSE checked_multiply_unsigned(self, rhs)

\* isize::MAX, the most bytes one allocation may span, on a target with 32-bit pointers.
isize_MAX == 2147483647

\* Vec::<T>::with_capacity(capacity), size being size_of::<T>() >= 1: it panics
\* when capacity * size exceeds isize::MAX.
Vec_with_capacity(capacity, size) ==
    IF capacity > isize_MAX \div size THEN Panic("capacity overflow") ELSE Some(<<>>)

\* T::default()
T_default == 0

\* The vector after n pushes of v.
Pushed(n, v) == IF n = 0 THEN <<>> ELSE [i \in 1..n |-> v]

new_default_matrix(columns, rows, size) ==
    LET len == checked_multiply(rows, columns)
    IN  IF len.kind = "None"
            THEN Error_new("matrix dimensions exceed chosen index size", <<>>)
        ELSE LET data == Vec_with_capacity(len.item[1], size)
             IN  IF data.kind = "Panic" THEN Aborted(data.msg)
                 ELSE new_matrix(rows, Pushed(len.item[1], T_default))

(***************************************************************************)
(* iter.rs.  Each constructor and each next / next_back is an operator     *)
(* from the matrix and the iterator to a step: the iterator after the      *)
(* call, what the call returned (or the panic that ended it), and whether  *)
(* it evaluated a subtraction whose mathematical result is below zero.     *)
(***************************************************************************)
Step(i, r, n) == [it |-> i, ret |-> r, neg |-> n]

NoIter == [kind |-> "none"]

SubPanic == Panic("attempt to subtract with overflow")

AddPanic == Panic("attempt to add with overflow")

Created == Some(<<>>)

\* MatrixForwardIterator::new
MatrixForwardIterator_new(end_exclusive) ==
    IF end_exclusive = MatrixAddress(0, 0)
        THEN [kind |-> "addresses", end_exclusive |-> end_exclusive, cursor |-> None]
    ELSE [kind |-> "addresses", end_exclusive |-> end_exclusive, cursor |-> Some(<<0, 0>>)]

\* MatrixForwardIterator::next that keeps the column cursor when it moves to the next row.
MatrixForwardIterator_next_ColumnKept(self) ==
    LET result == self.cursor
    IN  IF self.cursor.kind = "None" THEN Step(self, result, FALSE)
        ELSE LET column == Arith(self.cursor.item[2] + unit)
                 row == Arith(self.cursor.item[1] + unit)
             IN  IF column.panic THEN Step(self, AddPanic, FALSE)
                 ELSE IF column.v = self.end_exclusive.column
                     THEN IF row.panic THEN Step(self, AddPanic, FALSE)
                          ELSE IF row.v = self.end_exclusive.row
                              THEN Step([self EXCEPT !.cursor = None], result, FALSE)
                          ELSE Step([self EXCEPT !.cursor = Some(<<row.v, column.v>>)],
                                    result, FALSE)
                 ELSE Step([self EXCEPT !.cursor = Some(<<self.cursor.item[1], column.v>>)],
                           result, FALSE)

\* MatrixForwardIterator::next
MatrixForwardIterator_next(self) ==
    LET result == self.cursor
    IN  IF self.cursor.kind = "None" THEN Step(self, result, FALSE)
        ELSE LET column == Arith(self.cursor.item[2] + unit)
                 row == Arith(self.cursor.item[1] + unit)
             IN  IF column.panic THEN Step(self, AddPanic, FALSE)
                 ELSE IF column.v = self.end_exclusive.column
                     THEN IF row.panic THEN Step(self, AddPanic, FALSE)
                          ELSE IF row.v = self.end_exclusive.row
                              THEN Step([self EXCEPT !.cursor = None], result, FALSE)
                          ELSE Step([self EXCEPT !.cursor = Some(<<row.v, 0>>)], result, FALSE)
                 ELSE Step([self EXCEPT !.cursor = Some(<<self.cursor.item[1], column.v>>)],
                           result, FALSE)

\* DenseMatrix::addresses
DenseMatrix_addresses(self) == MatrixForwardIterator_new(MatrixAddress(self.rows, self.columns))

\* TransposedMatrix::addresses
TransposedMatrix_addresses(self) ==
    MatrixForwardIterator_new(MatrixAddress(row_count(self), column_count(self)))

addresses(m) ==
    IF IsTransposed(m) THEN TransposedMatrix_addresses(m) ELSE DenseMatrix_addresses(m)

\* MatrixValueIterator::new
MatrixValueIterator_new(m) == [kind |-> "values", addrs |-> addresses(m)]

\* MatrixValueIterator::next: the next address through the checked get, unwrapped.
MatrixValueIterator_next(m, self) ==
    LET a == MatrixForwardIterator_next(self.addrs)
        after == [self EXCEPT !.addrs = a.it]
    IN  IF a.ret.kind # "Some" THEN Step(after, a.ret, FALSE)
        ELSE LET g == get(m, MatrixAddress(a.ret.item[1], a.ret.item[2]))
             IN  IF g.kind = "None"
                     THEN Step(after, Panic("called Option::unwrap() on a None value"), FALSE)
                 ELSE Step(after, g, FALSE)

\* MatrixForwardIndexedIterator::new
MatrixForwardIndexedIterator_new(m) ==
    [kind |-> "indexed",
     addrs |-> MatrixForwardIterator_new(MatrixAddress(row_count(m), column_count(m)))]

\* MatrixForwardIndexedIterator::next: the next address with the cell indexed at it.
MatrixForwardIndexedIterator_next(m, self) ==
    LET a == MatrixForwardIterator_next(self.addrs)
        after == [self EXCEPT !.addrs = a.it]
    IN  IF a.ret.kind # "Some" THEN Step(after, a.ret, FALSE)
        ELSE LET g == index(m, MatrixAddress(a.ret.item[1], a.ret.item[2]))
             IN  IF g.kind = "Panic" THEN Step(after, g, FALSE)
                 ELSE Step(after, Some(a.ret.item \o g.item), FALSE)

\* MatrixRowIterator::new
MatrixRowIterator_new(m, row) ==
    LET back == Arith(column_count(m) - unit)
    IN  Step([kind |-> "row", row |-> row,
              column_cursor_forward |-> zero,
              column_cursor_back |-> back.v,
              terminated |-> (column_count(m) = zero)],
             IF back.panic THEN SubPanic ELSE Created,
             column_count(m) - unit < 0)

\* MatrixRowIterator::next that leaves the forward cursor where it is.
MatrixRowIterator_next_NoAdvance(m, self) ==
    IF self.terminated THEN Step(self, None, FALSE)
    ELSE LET addr == MatrixAddress(self.row, self.column_cursor_forward)
             result == index(m, addr)
         IN  IF result.kind = "Panic" THEN Step(self, result, FALSE)
             ELSE Step([self EXCEPT
                           !.terminated = (self.column_cursor_forward = self.column_cursor_back)],
                       result, FALSE)

\* MatrixRowIterator::next
MatrixRowIterator_next(m, self) ==
    IF self.terminated THEN Step(self, None, FALSE)
    ELSE LET addr == MatrixAddress(self.row, self.column_cursor_forward)
             result == index(m, addr)
             forward == Arith(self.column_cursor_forward + unit)
         IN  IF result.kind = "Panic" THEN Step(self, result, FALSE)
             ELSE IF forward.panic THEN Step(self, AddPanic, FALSE)
             ELSE Step([self EXCEPT
                           !.terminated = (self.column_cursor_forward = self.column_cursor_back),
                           !.column_cursor_forward = forward.v],
                       result, FALSE)

\* MatrixRowIterator::next_back
MatrixRowIterator_next_back(m, self) ==
    IF self.terminated THEN Step(self, None, FALSE)
    ELSE LET addr == MatrixAddress(self.row, self.column_cursor_back)
             result == index(m, addr)
             back == Arith(self.column_cursor_back - unit)
         IN  IF result.kind = "Panic" THEN Step(self, result, FALSE)
             ELSE IF self.column_cursor_back = self.column_cursor_forward
                 THEN Step([self EXCEPT !.terminated = TRUE], result, FALSE)
             ELSE IF back.panic THEN Step(self, SubPanic, self.column_cursor_back - unit < 0)
             ELSE Step([self EXCEPT !.column_cursor_back = back.v],
                       result, self.column_cursor_back - unit < 0)

\* MatrixColumnIterator::new
MatrixColumnIterator_new(m, column) ==
    LET back == Arith(row_count(m) - unit)
    IN  Step([kind |-> "column", column |-> column,
              row_cursor_forward |-> zero,
              row_cursor_back |-> back.v,
              terminated |-> (row_count(m) = zero)],
             IF back.panic THEN SubPanic ELSE Created,
             row_count(m) - unit < 0)

\* MatrixColumnIterator::next that does not set terminated when the cursors meet.
MatrixColumnIterator_next_NeverTerminates(m, self) ==
    IF self.terminated THEN Step(self, None, FALSE)
    ELSE LET addr == MatrixAddress(self.row_cursor_forward, self.column)
             result == index(m, addr)
             forward == Arith(self.row_cursor_forward + unit)
         IN  IF result.kind = "Panic" THEN Step(self, result, FALSE)
             ELSE IF forward.panic THEN Step(self, AddPanic, FALSE)
             ELSE Step([self EXCEPT !.row_cursor_forward = forward.v], result, FALSE)

\* MatrixColumnIterator::next
MatrixColumnIterator_next(m, self) ==
    IF self.terminated THEN Step(self, None, FALSE)
    ELSE LET addr == MatrixAddress(self.row_cursor_forward, self.column)
             result == index(m, addr)
             forward == Arith(self.row_cursor_forward + unit)
         IN  IF result.kind = "Panic" THEN Step(self, result, FALSE)
             ELSE IF forward.panic THEN Step(self, AddPanic, FALSE)
             ELSE Step([self EXCEPT
                           !.terminated = (self.row_cursor_forward = self.row_cursor_back),
                           !.row_cursor_forward = forward.v],
                       result, FALSE)

\* MatrixColumnIterator::next_back
MatrixColumnIterator_next_back(m, self) ==
    IF self.terminated THEN Step(self, None, FALSE)
    ELSE LET addr == MatrixAddress(self.row_cursor_back, self.column)
             result == index(m, addr)
             back == Arith(self.row_cursor_back - unit)
         IN  IF result.kind = "Panic" THEN Step(self, result, FALSE)
             ELSE IF self.row_cursor_back = self.row_cursor_forward
                 THEN Step([self EXCEPT !.terminated = TRUE], result, FALSE)
             ELSE IF back.panic THEN Step(self, SubPanic, self.row_cursor_back - unit < 0)
             ELSE Step([self EXCEPT !.row_cursor_back = back.v],
                       result, self.row_cursor_back - unit < 0)

\* MatrixRowsIterator::new
MatrixRowsIterator_new(m) ==
    LET back == Arith(row_count(m) - unit)
    IN  Step([kind |-> "rows",
              row_cursor_forward |-> zero,
              row_cursor_back |-> back.v,
              terminated |-> (row_count(m) = zero)],
             IF back.panic THEN SubPanic ELSE Created,
             row_count(m) - unit < 0)

\* MatrixRowsIterator::next
MatrixRowsIterator_next(self) ==
    IF self.terminated THEN Step(self, None, FALSE)
    ELSE LET row == Some(<<self.row_cursor_forward>>)
             forward == Arith(self.row_cursor_forward + unit)
         IN  IF forward.panic THEN Step(self, AddPanic, FALSE)
             ELSE Step([self EXCEPT
                           !.terminated = (self.row_cursor_forward = self.row_cursor_back),
                           !.row_cursor_forward = forward.v],
                       row, FALSE)

\* MatrixRowsIterator::next_back that binds the Row to the forward cursor.
MatrixRowsIterator_next_back_AtForward(self) ==
    IF self.terminated THEN Step(self, None, FALSE)
    ELSE LET row == Some(<<self.row_cursor_forward>>)
             back == Arith(self.row_cursor_back - unit)
         IN  IF self.row_cursor_forward = self.row_cursor_back
                 THEN Step([self EXCEPT !.terminated = TRUE], row, FALSE)
             ELSE IF back.panic THEN Step(self, SubPanic, self.row_cursor_back - unit < 0)
             ELSE Step([self EXCEPT !.row_cursor_back = back.v],
                       row, self.row_cursor_back - unit < 0)

\* MatrixRowsIterator::next_back
MatrixRowsIterator_next_back(self) ==
    IF self.terminated THEN Step(self, None, FALSE)
    ELSE LET row == Some(<<self.row_cursor_back>>)
             back == Arith(self.row_cursor_back - unit)
         IN  IF self.row_cursor_forward = self.row_cursor_back
                 THEN Step([self EXCEPT !.terminated = TRUE], row, FALSE)
             ELSE IF back.panic THEN Step(self, SubPanic, self.row_cursor_back - unit < 0)
             ELSE Step([self EXCEPT !.row_cursor_back = back.v],
                       row, self.row_cursor_back - unit < 0)

\* MatrixColumnsIterator::new (terminated is computed from row_count)
MatrixColumnsIterator_new(m) ==
    LET back == Arith(column_count(m) - unit)
    IN  Step([kind |-> "columns",
              column_cursor_forward |-> zero,
              column_cursor_back |-> back.v,
              terminated |-> (row_count(m) = zero)],
             IF back.panic THEN SubPanic ELSE Created,
             column_count(m) - unit < 0)

\* MatrixColumnsIterator::next
MatrixColumnsIterator_next(self) ==
    IF self.terminated THEN Step(self, None, FALSE)
    ELSE LET column == Some(<<self.column_cursor_forward>>)
             forward == Arith(self.column_cursor_forward + unit)
         IN  IF forward.panic THEN Step(self, AddPanic, FALSE)
             ELSE Step([self EXCEPT
                           !.terminated = (self.column_cursor_forward = self.column_cursor_back),
                           !.column_cursor_forward = forward.v],
                       column, FALSE)

\* MatrixColumnsIterator::next_back
MatrixColumnsIterator_next_back(self) ==
    IF self.terminated THEN Step(self, None, FALSE)
    ELSE LET column == Some(<<self.column_cursor_back>>)
             back == Arith(self.column_cursor_back - unit)
         IN  IF self.column_cursor_forward = self.column_cursor_back
                 THEN Step([self EXCEPT !.terminated = TRUE], column, FALSE)
             ELSE IF back.panic THEN Step(self, SubPanic, self.column_cursor_back - unit < 0)
             ELSE Step([self EXCEPT !.column_cursor_back = back.v],
                       column, self.column_cursor_back - unit < 0)

(***************************************************************************)
(* Row and Column accessors                                                *)
(***************************************************************************)
NoAcc == [kind |-> "none"]

Row_new(row) == [kind |-> "row", index |-> row]

Column_new(column) == [kind |-> "column", index |-> column]

\* DenseMatrix::row
DenseMatrix_row(self, row_num) ==
    IF row_num < zero \/ row_num >= self.rows THEN None ELSE Some(<<row_num>>)

\* DenseMatrix::column
DenseMatrix_column(self, column_num) ==
    IF column_num < zero \/ column_num >= self.columns THEN None ELSE Some(<<column_num>>)

\* TransposedMatrix::row
TransposedMatrix_row(self, row_num) ==
    IF row_num >= zero /\ row_num < row_count(self) THEN Some(<<row_num>>) ELSE None

\* TransposedMatrix::column
TransposedMatrix_column(self, col_num) ==
    IF col_num >= zero /\ col_num < column_count(self) THEN Some(<<col_num>>) ELSE None

row(m, row_num) ==
    IF IsTransposed(m) THEN TransposedMatrix_row(m, row_num) ELSE DenseMatrix_row(m, row_num)

column(m, column_num) ==
    IF IsTransposed(m) THEN TransposedMatrix_column(m, column_num)
    ELSE DenseMatrix_column(m, column_num)

\* Row::get that composes the address with the two coordinates exchanged.
Row_get_Exchanged(m, self, column_num) == get(m, MatrixAddress(column_num, self.index))

\* Row::get: the checked get at the fixed row and the given column.
Row_get(m, self, column_num) == get(m, MatrixAddress(self.index, column_num))

\* Column::get: the checked get at the given row and the fixed column.
Column_get(m, self, row_num) == get(m, MatrixAddress(row_num, self.index))

(***************************************************************************)
(* matrix.rs: Matrix::new.  The struct Matrix of matrix.rs has the fields  *)
(* of DenseMatrix and the same method bodies, so the model keeps one       *)
(* record for both.                                                        *)
(***************************************************************************)
\* The factory functions Matrix::new is called with: |_| T::default(), and one
\* whose value depends on the address it is given, |a| (a.row + a.column) % 2.
factory_fn(f, a) == IF f = "default" THEN T_default ELSE (a[1] + a[2]) % 2

RECURSIVE for_each_push_row(_, _, _, _)
\* The pushes of for_each for the addresses of one row: the iterator and the vector
\* when the next address is of another row, or there is none.
for_each_push_row(addrs, data, f, row_num) ==
    LET s == MatrixForwardIterator_next(addrs)
    IN  IF s.ret.kind = "Some" /\ s.ret.item[1] = row_num
            THEN for_each_push_row(s.it, Append(data, factory_fn(f, s.ret.item)), f, row_num)
        ELSE [addrs |-> addrs, data |-> data]

RECURSIVE for_each_push(_, _, _)
\* matrix.addresses().for_each(|a| matrix.data.push(factory_fn(a))), taken row by row
for_each_push(addrs, data, f) ==
    LET s == MatrixForwardIterator_next(addrs)
    IN  IF s.ret.kind = "Some"
            THEN LET after == for_each_push_row(addrs, data, f, s.ret.item[1])
                 IN  for_each_push(after.addrs, after.data, f)
        ELSE IF s.ret.kind = "Panic" THEN s.ret
        ELSE Some(data)

\* Matrix::new; the panic of Vec::with_capacity is caught and returned as an Err.
Matrix_new(columns, rows, f, size) ==
    IF columns < zero \/ rows < zero
        THEN Error_new("negative Matrix dimensions are not supported", <<>>)
    ELSE IF (columns = zero \/ rows = zero) /\ (columns # zero \/ rows # zero)
        THEN Error_new("zero x non-zero Matrix dimensions are not supported", <<>>)
    ELSE LET capacity == checked_multiply(rows, columns)
         IN  IF capacity.kind = "None"
                 THEN Error_new("rows {} * columns {} overflows vector max capacity",
                                <<rows, columns>>)
             ELSE IF Vec_with_capacity(capacity.item[1], size).kind = "Panic"
                 THEN Error_new("requested Matrix exceeds allocatable vector size", <<>>)
             ELSE LET matrix0 == DenseMatrix_new(columns, rows, <<>>)
                      filled == for_each_push(DenseMatrix_addresses(matrix0), <<>>, f)
                  IN  IF filled.kind = "Panic" THEN Aborted(filled.msg)
                      ELSE Ok(DenseMatrix_new(columns, rows, filled.item))

(***************************************************************************)
(* Writes: the assignment through the &mut T that get_mut or index_mut     *)
(* returned, a reference to the cell at an offset of the data vector of    *)
(* the dense store at the bottom of the borrow chain.                      *)
(***************************************************************************)
RECURSIVE Assign(_, _, _)
\* An assignment that pushes the value on the vector instead of storing it in the cell.
Assign_Pushes(m, off, v) ==
    IF IsTransposed(m) THEN [m EXCEPT !.underlay = Assign(m.underlay, off, v)]
    ELSE [m EXCEPT !.data = Append(m.data, v)]

Assign(m, off, v) ==
    IF IsTransposed(m) THEN [m EXCEPT !.underlay = Assign(m.underlay, off, v)]
    ELSE [m EXCEPT !.data[off + 1] = v]

(***************************************************************************)
(* matrix_address.rs: MatrixAddress::neighbors.  An address in a list is   *)
(* the tuple <<row, column>>.                                              *)
(***************************************************************************)
\* The derived Ord of MatrixAddress: by row, then by column.
AddressLess(a, b) == a[1] < b[1] \/ (a[1] = b[1] /\ a[2] < b[2])

\* The three pushes of one column of the neighborhood, the middle row pushed or not.
ColumnPushes(self, col, up, down, middle) ==
    (IF up THEN <<(<<Arith(self.row - unit).v, col>>)>> ELSE <<>>)
        \o (IF middle THEN <<(<<self.row, col>>)>> ELSE <<>>)
        \o (IF down THEN <<(<<Arith(self.row + unit).v, col>>)>> ELSE <<>>)

\* neighbors that returns the addresses in the order it pushed them.
neighbors_Unsorted(self, m) ==
    LET ione == unit
        izero == Arith(ione - ione).v
        last_row == Arith(row_count(m) - ione)
        last_column == Arith(column_count(m) - ione)
        up == self.row > izero
        down == self.row < last_row.v
        west == IF self.column > izero
                    THEN ColumnPushes(self, Arith(self.column - ione).v, up, down, TRUE)
                ELSE <<>>
        here == ColumnPushes(self, self.column, up, down, FALSE)
        east == IF self.column < last_column.v
                    THEN ColumnPushes(self, Arith(self.column + ione).v, up, down, TRUE)
                ELSE <<>>
    IN  Step(NoIter,
             IF last_row.panic \/ last_column.panic THEN SubPanic
             ELSE Some(west \o here \o east),
             row_count(m) - ione < 0 \/ column_count(m) - ione < 0)

neighbors(self, m) ==
    LET ione == unit
        izero == Arith(ione - ione).v
        last_row == Arith(row_count(m) - ione)
        last_column == Arith(column_count(m) - ione)
        up == self.row > izero
        down == self.row < last_row.v
        west == IF self.column > izero
                    THEN ColumnPushes(self, Arith(self.column - ione).v, up, down, TRUE)
                ELSE <<>>
        here == ColumnPushes(self, self.column, up, down, FALSE)
        east == IF self.column < last_column.v
                    THEN ColumnPushes(self, Arith(self.column + ione).v, up, down, TRUE)
                ELSE <<>>
    IN  Step(NoIter,
             IF last_row.panic \/ last_column.panic THEN SubPanic
             ELSE Some(SortSeq(west \o here \o east, AddressLess)),
             row_count(m) - ione < 0 \/ column_count(m) - ione < 0)

(***************************************************************************)
(* The inputs the program is run on.                                       *)
(***************************************************************************)
\* Every data vector of a small matrix.
SmallData == UNION {[1..n -> Values] : n \in 0..MaxLen}

\* A data vector whose cells all differ: cell i holds i.
Tagged(len) == [i \in 1..len |-> i - 1]

\* Matrices whose last offset, rows * columns - 1, does not fit I:
\* 12 x 11 (offsets to 131) for i8 and u8, 17 x 16 (offsets to 271).
WideCalls == {<<12, 132>>, <<17, 272>>}

\* The calls new_matrix(rows, data) explored.
Calls ==
    {<<r, d>> : r \in {x \in (-1)..MaxRows : Fits(x)}, d \in SmallData}
        \cup {<<c[1], Tagged(c[2])>> : c \in WideCalls}

\* The coordinate values accessors are called with: around zero, and around the counts.
Coords(m) ==
    {x \in ((-1)..(MaxLen + 1))
            \cup {row_count(m) - 1, row_count(m), column_count(m) - 1, column_count(m)} :
        Fits(x)}

\* The row and column counts the constructors are called with.
Dims == {x \in (-1)..MaxRows : Fits(x)}

\* new_matrix calls whose cells all differ.
TaggedCalls ==
    {<<r, Tagged(n)>> : r \in Dims, n \in 0..MaxLen}
        \cup {<<c[1], Tagged(c[2])>> : c \in WideCalls}

\* new_matrix calls whose cells all hold the default value.
DefaultDataCalls == {<<r, Pushed(n, T_default)>> : r \in Dims, n \in 0..MaxLen}

\* The values of size_of::<T>() explored: a byte, and a mebibyte.
ElementSizes == {1, 1048576}

\* Dimensions <<columns, rows>> of a matrix whose last offset does not fit I.
WideDims == {<<16, 17>>}

\* Dimensions whose product, 4096 cells of a mebibyte each, is more than one
\* allocation holds.
HugeDims == {<<64, 64>>}

\* The calls new_default_matrix(columns, rows) explored, each with the size of T.
DefaultCalls ==
    {c \in Dims \X Dims \X ElementSizes : c[1] * c[2] <= MaxLen}
        \cup {<<d[1], d[2], 1>> : d \in WideDims}
        \cup {<<d[1], d[2], 1048576>> : d \in HugeDims}

\* The factory functions Matrix::new is called with.
Factories == {"default", "parity"}

\* The calls Matrix::new(columns, rows, factory_fn) explored, each with the size of T.
MatrixNewCalls ==
    {c \in Dims \X Dims \X Factories \X {1} : c[1] * c[2] <= MaxLen}
        \cup {<<d[1], d[2], "parity", 1>> : d \in WideDims}
        \cup {<<d[1], d[2], "default", 1048576>> : d \in HugeDims}

\* The coordinate values writes are called with on an axis of n
\* cells: every value from -1 to n on a small matrix, the two ends of the axis and
\* the values next to them outside on a wide one.
AxisProbes(m, n) ==
    {x \in (IF row_count(m) * column_count(m) <= MaxLen
                THEN (-1)..n
            ELSE {-1, 0, n - 1, n}) :
        Fits(x)}

RowProbes(m) == AxisProbes(m, row_count(m))

ColumnProbes(m) == AxisProbes(m, column_count(m))

(***************************************************************************)
(* The state machine                                                       *)
(***************************************************************************)
NoRet == [op |-> "none", out |-> None]

Init ==
    /\ coord \in {"i8", "u8"}
    /\ checks \in BOOLEAN
    /\ call = [rows |-> 0, data |-> <<>>]
    /\ matrix = NoMatrix
    /\ copy = NoMatrix
    /\ acc = NoAcc
    /\ it = NoIter
    /\ ret = NoRet
    /\ front = <<>>
    /\ rear = <<>>
    /\ exhausted = FALSE
    /\ underflow = FALSE
    /\ fault = ""

Running == fault = "" /\ matrix.tag = "Ok"

\* The program holds neither an accessor nor an iterator.
Idle == acc.kind = "none" /\ it.kind = "none"

FaultOf(out) == IF out.kind = "Panic" THEN out.msg ELSE ""

\* new_matrix(rows, data)
NewMatrix(rows, data) ==
    /\ fault = ""
    /\ matrix.tag = "none"
    /\ call' = [rows |-> rows, data |-> data]
    /\ matrix' = new_matrix(rows, data)
    /\ fault' = IF matrix'.tag = "Panic" THEN matrix'.msg ELSE ""
    /\ UNCHANGED <<coord, checks, copy, acc, it, ret, front, rear, exhausted, underflow>>

\* matrix.get(address), called while no accessor or iterator is held
Get(address) ==
    /\ Running
    /\ Idle
    /\ ret' = [op |-> "get", address |-> address, out |-> get(matrix.m, address)]
    /\ fault' = FaultOf(ret'.out)
    /\ UNCHANGED <<coord, checks, copy, call, matrix, acc, it, front, rear, exhausted, underflow>>

\* matrix.get_mut(address), the reference dropped unwritten
GetMut(address) ==
    /\ Running
    /\ Idle
    /\ ret' = [op |-> "get_mut", address |-> address, out |-> get_mut(matrix.m, address)]
    /\ fault' = FaultOf(ret'.out)
    /\ UNCHANGED <<coord, checks, copy, call, matrix, acc, it, front, rear, exhausted, underflow>>

\* The program asks for an accessor and holds what it is given.
Access(op, out, a) ==
    /\ Running
    /\ Idle
    /\ ret' = [op |-> op, out |-> out]
    /\ acc' = a
    /\ it' = NoIter
    /\ front' = <<>> /\ rear' = <<>> /\ exhausted' = FALSE
    /\ UNCHANGED <<coord, checks, copy, call, matrix, underflow, fault>>

\* matrix.row(row_num)
Row(row_num) ==
    LET r == row(matrix.m, row_num)
    IN  Access("row", r, IF r.kind = "Some" THEN Row_new(r.item[1]) ELSE NoAcc)

\* matrix.column(column_num)
Column(column_num) ==
    LET c == column(matrix.m, column_num)
    IN  Access("column", c, IF c.kind = "Some" THEN Column_new(c.item[1]) ELSE NoAcc)

\* The program creates an iterator (step s), replacing the one it held.
Create(op, s, a) ==
    /\ Running
    /\ it' = IF s.ret.kind = "Panic" THEN NoIter ELSE s.it
    /\ acc' = a
    /\ ret' = [op |-> op, out |-> s.ret]
    /\ front' = <<>> /\ rear' = <<>> /\ exhausted' = FALSE
    /\ underflow' = (underflow \/ s.neg)
    /\ fault' = FaultOf(s.ret)
    /\ UNCHANGED <<coord, checks, copy, call, matrix>>

\* The program calls next or next_back on the iterator it holds (step s).
Call(op, s, a) ==
    /\ Running
    /\ it' = s.it
    /\ acc' = a
    /\ ret' = [op |-> op, out |-> s.ret]
    /\ front' = IF op = "next" /\ s.ret.kind = "Some" THEN Append(front, s.ret.item) ELSE front
    /\ rear' = IF op = "next_back" /\ s.ret.kind = "Some" THEN Append(rear, s.ret.item) ELSE rear
    /\ exhausted' = (exhausted \/ s.ret.kind = "None")
    /\ underflow' = (underflow \/ s.neg)
    /\ fault' = FaultOf(s.ret)
    /\ UNCHANGED <<coord, checks, copy, call, matrix>>

\* The accessor and the iterator held go out of scope.
Drop ==
    /\ Running
    /\ ~Idle
    /\ acc' = NoAcc
    /\ it' = NoIter
    /\ ret' = NoRet
    /\ front' = <<>> /\ rear' = <<>> /\ exhausted' = FALSE
    /\ UNCHANGED <<coord, checks, copy, call, matrix, underflow, fault>>

\* matrix.addresses()
Addresses == Idle /\ Create("addresses", Step(addresses(matrix.m), Created, FALSE), NoAcc)

\* matrix.iter()
Iter == Idle /\ Create("iter", Step(MatrixValueIterator_new(matrix.m), Created, FALSE), NoAcc)

\* matrix.indexed_iter()
IndexedIter ==
    Idle /\ Create("indexed_iter", Step(MatrixForwardIndexedIterator_new(matrix.m), Created, FALSE), NoAcc)

\* Row::iter on the Row held
RowIter == acc.kind = "row" /\ Create("row.iter", MatrixRowIterator_new(matrix.m, acc.index), acc)

\* Column::iter on the Column held
ColumnIter ==
    acc.kind = "column" /\ Create("column.iter", MatrixColumnIterator_new(matrix.m, acc.index), acc)

\* matrix.rows()
Rows == Idle /\ Create("rows", MatrixRowsIterator_new(matrix.m), NoAcc)

\* matrix.columns()
Columns == Idle /\ Create("columns", MatrixColumnsIterator_new(matrix.m), NoAcc)

ForwardNext == it.kind = "addresses" /\ Call("next", MatrixForwardIterator_next(it), acc)

ValueNext == it.kind = "values" /\ Call("next", MatrixValueIterator_next(matrix.m, it), acc)

IndexedNext ==
    it.kind = "indexed" /\ Call("next", MatrixForwardIndexedIterator_next(matrix.m, it), acc)

RowNext == it.kind = "row" /\ Call("next", MatrixRowIterator_next(matrix.m, it), acc)

RowNextBack == it.kind = "row" /\ Call("next_back", MatrixRowIterator_next_back(matrix.m, it), acc)

ColumnNext == it.kind = "column" /\ Call("next", MatrixColumnIterator_next(matrix.m, it), acc)

ColumnNextBack ==
    it.kind = "column" /\ Call("next_back", MatrixColumnIterator_next_back(matrix.m, it), acc)

\* The accessor a rows / columns iterator hands out becomes the accessor held.
Yielded(out, kind) == IF out.kind = "Some" THEN [kind |-> kind, index |-> out.item[1]] ELSE acc

RowsNext ==
    /\ it.kind = "rows"
    /\ LET s == MatrixRowsIterator_next(it) IN Call("next", s, Yielded(s.ret, "row"))

RowsNextBack ==
    /\ it.kind = "rows"
    /\ LET s == MatrixRowsIterator_next_back(it) IN Call("next_back", s, Yielded(s.ret, "row"))

ColumnsNext ==
    /\ it.kind = "columns"
    /\ LET s == MatrixColumnsIterator_next(it) IN Call("next", s, Yielded(s.ret, "column"))

ColumnsNextBack ==
    /\ it.kind = "columns"
    /\ LET s == MatrixColumnsIterator_next_back(it)
       IN  Call("next_back", s, Yielded(s.ret, "column"))

Next ==
    \/ \E c \in Calls : NewMatrix(c[1], c[2])
    \/ Running /\ \E r \in Coords(matrix.m), c \in Coords(matrix.m) : Get(MatrixAddress(r, c))
    \/ Running /\ \E r \in Coords(matrix.m), c \in Coords(matrix.m) : GetMut(MatrixAddress(r, c))
    \/ Running /\ \E r \in Coords(matrix.m) : Row(r)
    \/ Running /\ \E c \in Coords(matrix.m) : Column(c)
    \/ Drop
    \/ Addresses
    \/ Iter
    \/ IndexedIter
    \/ RowIter
    \/ ColumnIter
    \/ Rows
    \/ Columns
    \/ ForwardNext
    \/ ValueNext
    \/ IndexedNext
    \/ RowNext
    \/ RowNextBack
    \/ ColumnNext
    \/ ColumnNextBack
    \/ RowsNext
    \/ RowsNextBack
    \/ ColumnsNext
    \/ ColumnsNextBack

Spec == Init /\ [][Next]_vars

(***************************************************************************)
(* The other constructors, the transposed view, writes and neighbors.      *)
(***************************************************************************)
\* What a constructor call left in ret: Ok and Err are returned, a panic is not.
Constructed(m) == IF m.tag = "Panic" THEN Panic(m.msg) ELSE Created

\* new_default_matrix::<T, I>(columns, rows), size being size_of::<T>()
NewDefaultMatrix(columns, rows, size) ==
    /\ fault = ""
    /\ matrix.tag = "none"
    /\ matrix' = new_default_matrix(columns, rows, size)
    /\ call' = LET len == checked_multiply(rows, columns)
               IN  IF len.kind = "Some" /\ Vec_with_capacity(len.item[1], size).kind = "Some"
                       THEN [rows |-> rows, data |-> Pushed(len.item[1], T_default)]
                   ELSE call
    /\ ret' = [op |-> "new_default_matrix", columns |-> columns, rows |-> rows,
               size |-> size, out |-> Constructed(matrix')]
    /\ fault' = IF matrix'.tag = "Panic" THEN matrix'.msg ELSE ""
    /\ UNCHANGED <<coord, checks, copy, acc, it, front, rear, exhausted, underflow>>

\* Matrix::new(columns, rows, factory_fn), size being size_of::<T>()
MatrixNew(columns, rows, f, size) ==
    /\ fault = ""
    /\ matrix.tag = "none"
    /\ matrix' = Matrix_new(columns, rows, f, size)
    /\ ret' = [op |-> "Matrix::new", columns |-> columns, rows |-> rows,
               factory_fn |-> f, size |-> size, out |-> Constructed(matrix')]
    /\ fault' = IF matrix'.tag = "Panic" THEN matrix'.msg ELSE ""
    /\ UNCHANGED <<coord, checks, copy, call, acc, it, front, rear, exhausted, underflow>>

\* The number of transposed views stacked on the dense store.
RECURSIVE Views(_)
Views(m) == IF IsTransposed(m) THEN 1 + Views(m.underlay) ELSE 0

\* The dense store at the bottom of the borrow chain.
RECURSIVE Store(_)
Store(m) == IF IsTransposed(m) THEN Store(m.underlay) ELSE m

\* new_transposed_matrix(&mut matrix): from here on the program holds the view,
\* the store under it being mutably borrowed.
Transpose ==
    /\ Running
    /\ Idle
    /\ Views(matrix.m) < MaxViews
    /\ matrix' = Ok(new_transposed_matrix(matrix.m))
    /\ ret' = [op |-> "new_transposed_matrix", out |-> Created]
    /\ UNCHANGED <<coord, checks, copy, call, acc, it, front, rear, exhausted, underflow, fault>>

\* The view goes out of scope and the program holds the store under it again.
Release ==
    /\ Running
    /\ Idle
    /\ IsTransposed(matrix.m)
    /\ matrix' = Ok(matrix.m.underlay)
    /\ ret' = NoRet
    /\ UNCHANGED <<coord, checks, copy, call, acc, it, front, rear, exhausted, underflow, fault>>

\* A write through the reference a call returned, if it returned one.
Write(op, address, v, ref) ==
    /\ Running
    /\ Idle
    /\ ret' = [op |-> op, address |-> address, value |-> v, out |-> ref]
    /\ matrix' = IF ref.kind = "Some" THEN Ok(Assign(matrix.m, ref.item[1], v)) ELSE matrix
    /\ fault' = FaultOf(ref)
    /\ UNCHANGED <<coord, checks, copy, call, acc, it, front, rear, exhausted, underflow>>

\* if let Some(cell) = matrix.get_mut(address) { *cell = v }
GetMutWrite(address, v) == Write("get_mut", address, v, get_mut(matrix.m, address))

\* matrix[address] = v
IndexMutWrite(address, v) == Write("index_mut", address, v, index_mut(matrix.m, address))

\* address.neighbors(&matrix)
Neighbors(address) ==
    /\ Running
    /\ Idle
    /\ LET s == neighbors(address, matrix.m)
       IN  /\ ret' = [op |-> "neighbors", address |-> address, out |-> s.ret]
           /\ underflow' = (underflow \/ s.neg)
           /\ fault' = FaultOf(s.ret)
    /\ UNCHANGED <<coord, checks, copy, call, matrix, acc, it, front, rear, exhausted>>

\* Programs that build a matrix with any of the three constructors, then write to
\* it, directly and through transposed views.
StoreNext ==
    \/ \E c \in DefaultDataCalls : NewMatrix(c[1], c[2])
    \/ \E c \in DefaultCalls : NewDefaultMatrix(c[1], c[2], c[3])
    \/ \E c \in MatrixNewCalls : MatrixNew(c[1], c[2], c[3], c[4])
    \/ Transpose
    \/ Release
    \/ Running /\ \E r \in RowProbes(matrix.m), c \in ColumnProbes(matrix.m), v \in Values :
           GetMutWrite(MatrixAddress(r, c), v)
    \/ Running /\ \E r \in RowProbes(matrix.m), c \in ColumnProbes(matrix.m), v \in Values :
           IndexMutWrite(MatrixAddress(r, c), v)

StoreSpec == Init /\ [][StoreNext]_vars

\* A checked read through the accessor held (no iterator being held).
AccessorGet(op, arg, out) ==
    /\ Running
    /\ it.kind = "none"
    /\ ret' = [op |-> op, index |-> acc.index, arg |-> arg, out |-> out]
    /\ fault' = FaultOf(out)
    /\ UNCHANGED <<coord, checks, copy, call, matrix, acc, it, front, rear, exhausted, underflow>>

\* row.get(column_num) on the Row held
RowGet(column_num) ==
    acc.kind = "row" /\ AccessorGet("row.get", column_num, Row_get(matrix.m, acc, column_num))

\* column.get(row_num) on the Column held
ColumnGet(row_num) ==
    acc.kind = "column" /\ AccessorGet("column.get", row_num, Column_get(matrix.m, acc, row_num))

\* Programs that build a matrix with distinct cells and read it, directly and
\* through transposed views, with every accessor and iterator.
ViewNext ==
    \/ \E c \in TaggedCalls : NewMatrix(c[1], c[2])
    \/ Transpose
    \/ Release
    \/ Running /\ \E r \in Coords(matrix.m), c \in Coords(matrix.m) : Get(MatrixAddress(r, c))
    \/ Running /\ \E r \in Coords(matrix.m), c \in Coords(matrix.m) : GetMut(MatrixAddress(r, c))
    \/ Running /\ \E r \in Coords(matrix.m) : Row(r)
    \/ Running /\ \E c \in Coords(matrix.m) : Column(c)
    \/ Running /\ \E r \in Coords(matrix.m), c \in Coords(matrix.m) :
           Neighbors(MatrixAddress(r, c))
    \/ Running /\ \E c \in Coords(matrix.m) : RowGet(c)
    \/ Running /\ \E r \in Coords(matrix.m) : ColumnGet(r)
    \/ Drop
    \/ Addresses
    \/ Iter
    \/ IndexedIter
    \/ RowIter
    \/ ColumnIter
    \/ Rows
    \/ Columns
    \/ ForwardNext
    \/ ValueNext
    \/ IndexedNext
    \/ RowNext
    \/ RowNextBack
    \/ ColumnNext
    \/ ColumnNextBack
    \/ RowsNext
    \/ RowsNextBack
    \/ ColumnsNext
    \/ ColumnsNextBack

ViewSpec == Init /\ [][ViewNext]_vars

(***************************************************************************)
(* Programs that only compute on addresses: a.transpose(), and the         *)
(* transposition of what it returned.                                      *)
(***************************************************************************)
\* The coordinate values addresses are built from: around zero and at both ends of I.
AddressValues == {x \in {IMin, -1, 0, 1, 2, IMax} : Fits(x)}

\* An address as the tuple <<row, column>> a result carries.
AddressTuple(a) == <<a.row, a.column>>

\* a.transpose()
AddressTranspose(a) ==
    /\ fault = ""
    /\ ret' = [op |-> "transpose", address |-> a, out |-> Some(AddressTuple(transpose(a)))]
    /\ UNCHANGED <<coord, checks, copy, call, matrix, acc, it, front, rear, exhausted,
                   underflow, fault>>

\* a.transpose().transpose(): the transposition of the address the last call returned
AddressTransposeBack ==
    /\ fault = ""
    /\ ret.op = "transpose"
    /\ ret' = [op |-> "transpose.transpose", address |-> ret.address,
               out |-> Some(AddressTuple(transpose(MatrixAddress(ret.out.item[1],
                                                                 ret.out.item[2]))))]
    /\ UNCHANGED <<coord, checks, copy, call, matrix, acc, it, front, rear, exhausted,
                   underflow, fault>>

AddressNext ==
    \/ \E r \in AddressValues, c \in AddressValues : AddressTranspose(MatrixAddress(r, c))
    \/ AddressTransposeBack

AddressSpec == Init /\ [][AddressNext]_vars

(***************************************************************************)
(* Programs that take a transposed view of a transposed view, and read and *)
(* write through it.                                                       *)
(***************************************************************************)
\* new_transposed_matrix(&mut view): a view of the view held, which is borrowed in turn.
TransposeView ==
    /\ Running
    /\ Idle
    /\ IsTransposed(matrix.m)
    /\ Views(matrix.m) < MaxNested
    /\ matrix' = Ok(new_transposed_matrix(matrix.m))
    /\ ret' = [op |-> "new_transposed_matrix", out |-> Created]
    /\ UNCHANGED <<coord, checks, copy, call, acc, it, front, rear, exhausted, underflow, fault>>

NestedNext ==
    \/ \E c \in DefaultCalls : NewDefaultMatrix(c[1], c[2], c[3])
    \/ Transpose
    \/ TransposeView
    \/ Release
    \/ Running /\ \E r \in RowProbes(matrix.m), c \in ColumnProbes(matrix.m) :
           Get(MatrixAddress(r, c))
    \/ Running /\ \E r \in RowProbes(matrix.m), c \in ColumnProbes(matrix.m), v \in Values :
           GetMutWrite(MatrixAddress(r, c), v)
    \/ Running /\ \E r \in RowProbes(matrix.m), c \in ColumnProbes(matrix.m), v \in Values :
           IndexMutWrite(MatrixAddress(r, c), v)

NestedSpec == Init /\ [][NestedNext]_vars

(***************************************************************************)
(* Programs that build a dense matrix, clone it, and write to the matrix   *)
(* and to the clone.                                                       *)
(***************************************************************************)
\* let copy = matrix.clone()
Clone ==
    /\ Running
    /\ Idle
    /\ ~IsTransposed(matrix.m)
    /\ copy.tag = "none"
    /\ copy' = Ok(clone(matrix.m))
    /\ ret' = [op |-> "clone", out |-> Created]
    /\ UNCHANGED <<coord, checks, call, matrix, acc, it, front, rear, exhausted, underflow, fault>>

\* A write to the clone through the reference a call on it returned, if it returned one.
CloneWrite(op, address, v, ref) ==
    /\ Running
    /\ Idle
    /\ copy.tag = "Ok"
    /\ ret' = [op |-> op, address |-> address, value |-> v, out |-> ref]
    /\ copy' = IF ref.kind = "Some" THEN Ok(Assign(copy.m, ref.item[1], v)) ELSE copy
    /\ fault' = FaultOf(ref)
    /\ UNCHANGED <<coord, checks, call, matrix, acc, it, front, rear, exhausted, underflow>>

\* if let Some(cell) = copy.get_mut(address) { *cell = v }
CloneGetMutWrite(address, v) ==
    copy.tag = "Ok" /\ CloneWrite("clone.get_mut", address, v, get_mut(copy.m, address))

\* copy[address] = v
CloneIndexMutWrite(address, v) ==
    copy.tag = "Ok" /\ CloneWrite("clone.index_mut", address, v, index_mut(copy.m, address))

\* The row and column numbers of the cells of m.
RowNumbers(m) == 0..(row_count(m) - 1)

ColumnNumbers(m) == 0..(column_count(m) - 1)

CloneNext ==
    \/ \E c \in DefaultDataCalls : NewMatrix(c[1], c[2])
    \/ Clone
    \/ Running /\ \E r \in RowNumbers(matrix.m), c \in ColumnNumbers(matrix.m), v \in Values :
           IndexMutWrite(MatrixAddress(r, c), v)
    \/ Running /\ \E r \in RowNumbers(matrix.m), c \in ColumnNumbers(matrix.m), v \in Values :
           GetMutWrite(MatrixAddress(r, c), v)
    \/ Running /\ \E r \in RowNumbers(matrix.m), c \in ColumnNumbers(matrix.m), v \in Values :
           CloneGetMutWrite(MatrixAddress(r, c), v)
    \/ Running /\ \E r \in RowNumbers(matrix.m), c \in ColumnNumbers(matrix.m), v \in Values :
           CloneIndexMutWrite(MatrixAddress(r, c), v)

CloneSpec == Init /\ [][CloneNext]_vars

(***************************************************************************)
(* What the properties below speak of.                                     *)
(***************************************************************************)
M == matrix.m

\* A single-row or single-column iterator is held.
CellIter == Running /\ it.kind \in {"row", "column"}

\* One of the four bidirectional iterators is held.
BidiIter == Running /\ it.kind \in {"row", "column", "rows", "columns"}

\* The length of the axis the iterator held runs over.
AxisLen == IF it.kind \in {"row", "columns"} THEN M.columns ELSE M.rows

\* The number of items the iterator held has yielded so far, from both ends.
Yields == Len(front) + Len(rear)

\* The reference to the cell of the matrix at (r, c): its place in the
\* row-major data vector and the value stored there.
CellRef(r, c) == <<r * M.columns + c, M.data[r * M.columns + c + 1]>>

\* The cell at index k of the axis the row / column iterator held runs over.
AxisCell(k) == IF it.kind = "row" THEN CellRef(it.row, k) ELSE CellRef(k, it.column)

\* What next and next_back would return if called on the iterator held.
NextOut ==
    CASE it.kind = "row" -> MatrixRowIterator_next(M, it).ret
      [] it.kind = "column" -> MatrixColumnIterator_next(M, it).ret
      [] it.kind = "rows" -> MatrixRowsIterator_next(it).ret
      [] it.kind = "columns" -> MatrixColumnsIterator_next(it).ret
      [] it.kind = "addresses" -> MatrixForwardIterator_next(it).ret
      [] it.kind = "values" -> MatrixValueIterator_next(M, it).ret
      [] it.kind = "indexed" -> MatrixForwardIndexedIterator_next(M, it).ret

NextBackOut ==
    CASE it.kind = "row" -> MatrixRowIterator_next_back(M, it).ret
      [] it.kind = "column" -> MatrixColumnIterator_next_back(M, it).ret
      [] it.kind = "rows" -> MatrixRowsIterator_next_back(it).ret
      [] it.kind = "columns" -> MatrixColumnsIterator_next_back(it).ret

\* The last call was a next or next_back.
IterCall == ret.op \in {"next", "next_back"}

\* (r, c) is an address of the matrix, stated on the integers.
InRange(r, c) == 0 <= r /\ r < M.rows /\ 0 <= c /\ c < M.columns

(***************************************************************************)
(* C1.  On a row's or a column's iterator, any interleaving of next and    *)
(* next_back yields each cell of the axis exactly once: no call on it      *)
(* panics, every item yielded is a cell of the axis, no cell is yielded    *)
(* twice, and when the iterator reports exhaustion it has yielded as many  *)
(* cells as the axis is long.                                              *)
(***************************************************************************)
C1_EachCellOnce ==
    CellIter =>
        LET items == front \o rear
        IN  /\ \A i \in 1..Len(items) : \E k \in 0..(AxisLen - 1) : items[i] = AxisCell(k)
            /\ \A i, j \in 1..Len(items) : i # j => items[i][1] # items[j][1]
            /\ exhausted => Len(items) = AxisLen

C1_NoPanic == (it.kind \in {"row", "column"} /\ IterCall) => ret.out.kind # "Panic"

C1_Claim == C1_EachCellOnce /\ C1_NoPanic

(***************************************************************************)
(* C2.  On a row's or a column's iterator over an axis of length n, the    *)
(* k-th successful next yields the cell at index k-1 and the k-th          *)
(* successful next_back yields the cell at index n-k.                      *)
(***************************************************************************)
C2_Claim ==
    CellIter =>
        /\ \A k \in 1..Len(front) : front[k] = AxisCell(k - 1)
        /\ \A k \in 1..Len(rear) : rear[k] = AxisCell(AxisLen - k)

(***************************************************************************)
(* C3.  On each of the four bidirectional iterators over an axis of length *)
(* n: once n items have been yielded from the two ends together, or once   *)
(* either next or next_back has returned None, both next and next_back     *)
(* return None.                                                            *)
(***************************************************************************)
C3_ExhaustedForGood ==
    BidiIter =>
        ((Yields = AxisLen \/ exhausted) =>
            NextOut.kind = "None" /\ NextBackOut.kind = "None")

\* A column iterator drained from both ends, after which a call returned None.
C3_Witness ==
    /\ BidiIter
    /\ it.kind = "column"
    /\ Len(front) >= 1 /\ Len(rear) >= 1
    /\ Yields = AxisLen
    /\ exhausted
    /\ IterCall /\ ret.out.kind = "None"

(***************************************************************************)
(* C4.  On a matrix with R >= 1 rows and C >= 1 columns the forward        *)
(* address iterator never panics, its k-th yield (from 0) is the address   *)
(* (k div C, k mod C), it yields at most R*C addresses, returns None once  *)
(* it has yielded R*C, and returns None only then.                         *)
(***************************************************************************)
C4_RowMajor ==
    (matrix.tag = "Ok" /\ it.kind = "addresses" /\ M.rows >= 1 /\ M.columns >= 1) =>
        /\ IterCall => ret.out.kind # "Panic"
        /\ \A k \in 1..Len(front) :
               front[k] = <<(k - 1) \div M.columns, (k - 1) % M.columns>>
        /\ Len(front) <= M.rows * M.columns
        /\ Len(front) = M.rows * M.columns => NextOut.kind = "None"
        /\ exhausted => Len(front) = M.rows * M.columns

\* The address iterator of a matrix of two rows or more, run to its end.
C4_Witness ==
    /\ Running
    /\ it.kind = "addresses"
    /\ M.rows >= 2 /\ M.columns >= 2
    /\ Len(front) = M.rows * M.columns
    /\ ret.op = "next" /\ ret.out.kind = "None"

(***************************************************************************)
(* C5.  On a 0x0 matrix, addresses(), indexed_iter(), rows() and columns() *)
(* each return an iterator that is exhausted from the start: the call      *)
(* does not panic, next (and next_back, where there is one) returns None,  *)
(* and nothing is ever yielded.                                            *)
(***************************************************************************)
C5_Claim ==
    (matrix.tag = "Ok" /\ M.rows = 0 /\ M.columns = 0) =>
        /\ ret.op \in {"addresses", "indexed_iter", "rows", "columns"} => ret.out.kind # "Panic"
        /\ (fault = "" /\ it.kind \in {"addresses", "indexed", "rows", "columns"}) =>
               /\ NextOut.kind = "None"
               /\ it.kind \in {"rows", "columns"} => NextBackOut.kind = "None"
               /\ front = <<>> /\ rear = <<>>

(***************************************************************************)
(* C6.  With an unsigned coordinate type no construction, next or          *)
(* next_back of a bidirectional iterator evaluates a subtraction whose     *)
(* mathematical result is below zero.                                      *)
(***************************************************************************)
C6_Claim == ~IsSigned => ~underflow

(***************************************************************************)
(* C7.  For every matrix the constructors return and every in-range        *)
(* address (r, c), neither r * column_count nor r * column_count + c       *)
(* overflows the coordinate type, and index_address returns exactly        *)
(* r * column_count + c.                                                   *)
(***************************************************************************)
C7_Claim ==
    matrix.tag = "Ok" =>
        \A r \in 0..(M.rows - 1), c \in 0..(M.columns - 1) :
            /\ Fits(r * M.columns)
            /\ Fits(r * M.columns + c)
            /\ index_address(M, MatrixAddress(r, c)) = Some(<<r * M.columns + c>>)

(***************************************************************************)
(* C8.  For R >= 1 and non-empty data whose length L is a multiple of R,   *)
(* with L/R representable in the coordinate type, new_matrix(R, data)      *)
(* returns a matrix with row_count = R and column_count = L/R whose        *)
(* get((r, c)) is the cell holding data[r*(L/R) + c], for every in-range   *)
(* (r, c).                                                                 *)
(***************************************************************************)
C8_Claim ==
    LET R == call.rows
        L == Len(call.data)
    IN  (matrix.tag # "none" /\ R >= 1 /\ L > 0 /\ L % R = 0 /\ Fits(L \div R)) =>
            /\ matrix.tag = "Ok"
            /\ row_count(M) = R
            /\ column_count(M) = L \div R
            /\ \A r \in 0..(R - 1), c \in 0..((L \div R) - 1) :
                   get(M, MatrixAddress(r, c))
                       = Some(<<r * (L \div R) + c, call.data[r * (L \div R) + c + 1]>>)

(***************************************************************************)
(* C9.  get(a) and get_mut(a) return None if and only if a is not an       *)
(* address of the matrix, that is unless 0 <= a.row < row_count and        *)
(* 0 <= a.column < column_count.                                           *)
(***************************************************************************)
C9_NoneIffOutOfRange ==
    ret.op \in {"get", "get_mut"} =>
        (ret.out.kind = "None" <=> ~InRange(ret.address.row, ret.address.column))

\* get refused an address whose row is negative and whose column is in range.
C9_Witness ==
    /\ ret.op = "get"
    /\ ret.address.row < 0
    /\ InRange(0, ret.address.column)
    /\ ret.out.kind = "None"

(***************************************************************************)
(* C10.  new_matrix returns Ok or Err, and never panics, for every row     *)
(* count and every data vector.                                            *)
(***************************************************************************)
C10_Claim == matrix.tag \in {"none", "Ok", "Err"}

(***************************************************************************)
(* C11.  new_matrix returns Err("negative row count not supported") for    *)
(* every negative row count, whatever the data, and Err("data length L is  *)
(* not a multiple of rows (R)") whenever R > 0 and the data length L > 0   *)
(* is not a multiple of R; in both cases it produces no matrix.            *)
(***************************************************************************)
C11_RejectsWithMessage ==
    LET R == call.rows
        L == Len(call.data)
    IN  matrix.tag # "none" =>
            /\ R < 0 => matrix = Error_new("negative row count not supported", <<>>)
            /\ (R > 0 /\ L > 0 /\ L % R # 0) =>
                   matrix = Error_new("data length {} is not a multiple of rows ({})", <<L, R>>)

\* new_matrix refused a negative row count given with data.
C11_Witness ==
    /\ call.rows < 0
    /\ Len(call.data) > 0
    /\ matrix.tag = "Err"

(***************************************************************************)
(* C12.  For a row count R >= 0, new_matrix(R, empty data) returns Ok if   *)
(* and only if R = 0, and then the matrix has row_count = 0 and            *)
(* column_count = 0; for every R > 0 it returns Err("missing row data").   *)
(***************************************************************************)
C12_EmptyData ==
    (matrix.tag # "none" /\ call.rows >= 0 /\ call.data = <<>>) =>
        /\ matrix.tag = "Ok" <=> call.rows = 0
        /\ matrix.tag = "Ok" => row_count(matrix.m) = 0 /\ column_count(matrix.m) = 0
        /\ call.rows > 0 => matrix = Error_new("missing row data", <<>>)

\* new_matrix refused empty data given with a positive row count.
C12_Witness ==
    /\ call.rows > 0
    /\ call.data = <<>>
    /\ matrix.tag = "Err"


(***************************************************************************)
(* C13.  Every matrix a constructor (new_matrix, new_default_matrix,       *)
(* Matrix::new) returned Ok, and every state of it after any sequence of   *)
(* writes through get_mut and index_mut, has a data length of exactly      *)
(* row_count * column_count, and row_count = 0 if and only if              *)
(* column_count = 0.                                                       *)
(***************************************************************************)
C13_Shape ==
    matrix.tag = "Ok" =>
        LET d == Store(M)
        IN  /\ Len(d.data) = d.rows * d.columns
            /\ d.rows = 0 <=> d.columns = 0
            /\ Len(d.data) = row_count(M) * column_count(M)
            /\ row_count(M) = 0 <=> column_count(M) = 0

\* A matrix of two rows or more that Matrix::new built (new_matrix was never
\* called), written to through index_mut, holding both values.
C13_Witness ==
    /\ Running
    /\ call.data = <<>>
    /\ row_count(Store(M)) >= 2
    /\ ret.op = "index_mut" /\ ret.out.kind = "Some"
    /\ \E i, j \in 1..Len(Store(M).data) : Store(M).data[i] # Store(M).data[j]

(***************************************************************************)
(* C14.  new_default_matrix(columns, rows) returns Err whenever exactly    *)
(* one of rows and columns is zero; whenever it returns Ok, the matrix has *)
(* row_count = rows and column_count = columns and every cell holds the    *)
(* default value.                                                          *)
(***************************************************************************)
C14_Claim ==
    ret.op = "new_default_matrix" =>
        /\ ((ret.rows = 0) # (ret.columns = 0)) => matrix.tag = "Err"
        /\ matrix.tag = "Ok" =>
               /\ row_count(M) = ret.rows
               /\ column_count(M) = ret.columns
               /\ \A i \in 1..Len(M.data) : M.data[i] = T_default

(***************************************************************************)
(* C15.  new_default_matrix(columns, rows) returns Err, without panicking  *)
(* and without producing a matrix, whenever rows or columns is negative    *)
(* and whenever rows * columns cells are more than an allocation can hold. *)
(* (With 8-bit coordinates the product always fits the platform size       *)
(* type.)                                                                  *)
(***************************************************************************)
C15_Claim ==
    ret.op = "new_default_matrix" =>
        ((\/ ret.rows < 0
          \/ ret.columns < 0
          \/ ret.rows * ret.columns > isize_MAX \div ret.size) => matrix.tag = "Err")


(***************************************************************************)
(* What the properties of transposed views speak of.                       *)
(***************************************************************************)
\* A transposed view is held.
Viewing == Running /\ IsTransposed(M)

\* (r, c) is an address of m, stated on the integers.
InRangeOf(m, r, c) == 0 <= r /\ r < row_count(m) /\ 0 <= c /\ c < column_count(m)

RECURSIVE CellValue(_, _, _)
\* The value m holds at its address (r, c), by the row-major layout of the store.
CellValue(m, r, c) ==
    IF IsTransposed(m) THEN CellValue(m.underlay, c, r)
    ELSE m.data[r * m.columns + c + 1]

(***************************************************************************)
(* C16.  A transposed view over a matrix of R rows and C columns reports   *)
(* row_count = C and column_count = R, the end of its range is             *)
(* (row = C, column = R), and for every address (r, c), in range or not,   *)
(* view.get((r, c)) equals underlying.get((c, r)); it is None exactly when *)
(* r is outside [0, C) or c is outside [0, R).                             *)
(***************************************************************************)
C16_TransposedReads ==
    Viewing =>
        LET U == M.underlay
            R == row_count(U)
            C == column_count(U)
        IN  /\ row_count(M) = C
            /\ column_count(M) = R
            /\ range(M).end = MatrixAddress(C, R)
            /\ ret.op = "get" =>
                   /\ ret.out = get(U, MatrixAddress(ret.address.column, ret.address.row))
                   /\ ret.out.kind = "None"
                          <=> ~(/\ 0 <= ret.address.row /\ ret.address.row < C
                                /\ 0 <= ret.address.column /\ ret.address.column < R)
            /\ Idle =>
                   \A r \in Coords(M), c \in Coords(M) :
                       get(M, MatrixAddress(r, c)) = get(U, MatrixAddress(c, r))

\* get through the view of a matrix that is not square returned a cell off the
\* diagonal, one the matrix has no cell for at the same address.
C16_Witness ==
    /\ Viewing
    /\ ret.op = "get"
    /\ ret.out.kind = "Some"
    /\ ret.address.row >= row_count(M.underlay)
    /\ ret.out.item[2] = CellValue(M.underlay, ret.address.column, ret.address.row)



(***************************************************************************)
(* C17.  A write of v through a transposed view at an in-range address     *)
(* (r, c), by get_mut or by index_mut, makes the underlying matrix hold v  *)
(* at (c, r) and leaves its other cells and its row_count and column_count *)
(* unchanged; after the write, view.get((r, c)) = underlying.get((c, r))   *)
(* still holds for every address.                                          *)
(***************************************************************************)
C17_Claim ==
    [][(/\ Viewing
        /\ ret'.op \in {"get_mut", "index_mut"}
        /\ InRangeOf(M, ret'.address.row, ret'.address.column))
       => LET U == M.underlay
              V == matrix'.m
              a == ret'.address
          IN  /\ fault' = ""
              /\ IsTransposed(V)
              /\ row_count(V.underlay) = row_count(U)
              /\ column_count(V.underlay) = column_count(U)
              /\ \A r \in 0..(row_count(U) - 1), c \in 0..(column_count(U) - 1) :
                     CellValue(V.underlay, r, c)
                         = IF r = a.column /\ c = a.row THEN ret'.value ELSE CellValue(U, r, c)
              /\ \A r \in RowProbes(V), c \in ColumnProbes(V) :
                     get(V, MatrixAddress(r, c)) = get(V.underlay, MatrixAddress(c, r))]_vars

(***************************************************************************)
(* C18.  A transposed view over a matrix is observationally equivalent to  *)
(* the dense matrix D with D[(r, c)] = the view's cell at (r, c):          *)
(* addresses(), iter(), indexed_iter(), row(i) / column(j) and their       *)
(* iterators, and rows() / columns() produce, step for step under the same *)
(* sequence of next / next_back calls, the same addresses and values on    *)
(* the view as on D.                                                       *)
(***************************************************************************)
\* The dense matrix with the counts and the cells of m.
DenseOf(m) ==
    LET R == row_count(m)
        C == column_count(m)
    IN  DenseMatrix_new(C, R,
            IF R * C = 0 THEN <<>>
            ELSE [k \in 1..(R * C) |-> CellValue(m, (k - 1) \div C, (k - 1) % C)])

\* The step next takes on iterator i over m.
NextStep(m, i) ==
    CASE i.kind = "row" -> MatrixRowIterator_next(m, i)
      [] i.kind = "column" -> MatrixColumnIterator_next(m, i)
      [] i.kind = "rows" -> MatrixRowsIterator_next(i)
      [] i.kind = "columns" -> MatrixColumnsIterator_next(i)
      [] i.kind = "addresses" -> MatrixForwardIterator_next(i)
      [] i.kind = "values" -> MatrixValueIterator_next(m, i)
      [] i.kind = "indexed" -> MatrixForwardIndexedIterator_next(m, i)

\* The step next_back takes on iterator i over m.
NextBackStep(m, i) ==
    CASE i.kind = "row" -> MatrixRowIterator_next_back(m, i)
      [] i.kind = "column" -> MatrixColumnIterator_next_back(m, i)
      [] i.kind = "rows" -> MatrixRowsIterator_next_back(i)
      [] i.kind = "columns" -> MatrixColumnsIterator_next_back(i)

\* What the caller sees of an outcome: addresses and values, not the place a cell
\* has in a data vector.
Seen(kind, out) ==
    IF out.kind # "Some" THEN out
    ELSE IF kind \in {"values", "row", "column"} THEN Some(<<out.item[2]>>)
    ELSE IF kind = "indexed" THEN Some(<<out.item[1], out.item[2], out.item[4]>>)
    ELSE out

\* Two steps leave the iterator in the same state and show the caller the same.
SameStep(kind, s, t) == s.it = t.it /\ Seen(kind, s.ret) = Seen(kind, t.ret)

C18_Claim ==
    Viewing =>
        LET D == DenseOf(M)
        IN  /\ it.kind # "none" => SameStep(it.kind, NextStep(M, it), NextStep(D, it))
            /\ it.kind \in {"row", "column", "rows", "columns"} =>
                   SameStep(it.kind, NextBackStep(M, it), NextBackStep(D, it))
            /\ acc.kind = "row" =>
                   MatrixRowIterator_new(M, acc.index) = MatrixRowIterator_new(D, acc.index)
            /\ acc.kind = "column" =>
                   MatrixColumnIterator_new(M, acc.index) = MatrixColumnIterator_new(D, acc.index)
            /\ Idle =>
                   /\ addresses(M) = addresses(D)
                   /\ MatrixValueIterator_new(M) = MatrixValueIterator_new(D)
                   /\ MatrixForwardIndexedIterator_new(M) = MatrixForwardIndexedIterator_new(D)
                   /\ MatrixRowsIterator_new(M) = MatrixRowsIterator_new(D)
                   /\ MatrixColumnsIterator_new(M) = MatrixColumnsIterator_new(D)
                   /\ \A i \in Coords(M) : row(M, i) = row(D, i) /\ column(M, i) = column(D, i)


(***************************************************************************)
(* C19.  For every matrix and every in-range address a, a.neighbors(matrix)*)
(* is exactly the list of the in-range addresses b # a with                *)
(* |b.row - a.row| <= 1 and |b.column - a.column| <= 1, each once, in      *)
(* ascending address order (by row, then by column); so an interior        *)
(* address has 8 neighbors and a corner of a matrix of 2 x 2 or more has 3.*)
(***************************************************************************)
\* The eight addresses around a, in address order.
Around(a) ==
    <<(<<a.row - 1, a.column - 1>>), (<<a.row - 1, a.column>>), (<<a.row - 1, a.column + 1>>),
      (<<a.row, a.column - 1>>), (<<a.row, a.column + 1>>),
      (<<a.row + 1, a.column - 1>>), (<<a.row + 1, a.column>>), (<<a.row + 1, a.column + 1>>)>>

C19_ExactNeighbors ==
    (/\ matrix.tag = "Ok"
     /\ ret.op = "neighbors"
     /\ InRangeOf(M, ret.address.row, ret.address.column)) =>
        LET ok(b) == InRangeOf(M, b[1], b[2])
        IN  ret.out = Some(SelectSeq(Around(ret.address), ok))

\* neighbors of an interior address, asked through a transposed view: all eight.
C19_Witness ==
    /\ Viewing
    /\ ret.op = "neighbors"
    /\ ret.out.kind = "Some"
    /\ Len(ret.out.item) = 8

(***************************************************************************)
(* C20.  For every matrix and every address a whatsoever, in the matrix's  *)
(* bounds or not, on a 0 x 0 matrix too, every address a.neighbors(matrix) *)
(* returns satisfies matrix.contains, and a itself is never returned.      *)
(***************************************************************************)
C20_Claim ==
    (matrix.tag = "Ok" /\ ret.op = "neighbors" /\ ret.out.kind = "Some") =>
        \A i \in 1..Len(ret.out.item) :
            /\ contains(M, MatrixAddress(ret.out.item[i][1], ret.out.item[i][2]))
            /\ ret.out.item[i] # <<ret.address.row, ret.address.column>>

(***************************************************************************)
(* C21.  Address transposition swaps row and column and is an involution:  *)
(* a.transpose() is (row = a.column, column = a.row), it equals a exactly  *)
(* when a.row = a.column, and a.transpose().transpose() = a, for every     *)
(* address a.                                                              *)
(***************************************************************************)
C21_Involution ==
    /\ ret.op = "transpose" =>
           /\ ret.out = Some(<<ret.address.column, ret.address.row>>)
           /\ ret.out.item = AddressTuple(ret.address) <=> ret.address.row = ret.address.column
    /\ ret.op = "transpose.transpose" => ret.out = Some(AddressTuple(ret.address))

\* An address off the diagonal, transposed twice.
C21_Witness ==
    /\ ret.op = "transpose.transpose"
    /\ ret.address.row # ret.address.column
    /\ ret.out.item = AddressTuple(ret.address)

(***************************************************************************)
(* C22.  matrix.row(i) returns a Row accessor, bound to i, if and only if  *)
(* 0 <= i < row_count, and None otherwise; likewise column(j) against      *)
(* column_count; on dense matrices and on transposed views.  For an        *)
(* accessor so produced, row.get(c) is matrix.get((row, c)) and            *)
(* column.get(r) is matrix.get((r, column)) for every c / r, and it is     *)
(* None when the varying index is out of range.                            *)
(***************************************************************************)
C22_Accessors ==
    Running =>
        /\ Idle =>
               \A i \in Coords(M) :
                   /\ row(M, i) = IF 0 <= i /\ i < row_count(M) THEN Some(<<i>>) ELSE None
                   /\ column(M, i) = IF 0 <= i /\ i < column_count(M) THEN Some(<<i>>) ELSE None
        /\ ret.op \in {"row", "column"} =>
               IF ret.out.kind = "Some" THEN acc = [kind |-> ret.op, index |-> ret.out.item[1]]
               ELSE acc = NoAcc
        /\ acc.kind = "row" => 0 <= acc.index /\ acc.index < row_count(M)
        /\ acc.kind = "column" => 0 <= acc.index /\ acc.index < column_count(M)
        /\ ret.op = "row.get" =>
               /\ ret.out = get(M, MatrixAddress(ret.index, ret.arg))
               /\ ~(0 <= ret.arg /\ ret.arg < column_count(M)) => ret.out = None
        /\ ret.op = "column.get" =>
               /\ ret.out = get(M, MatrixAddress(ret.arg, ret.index))
               /\ ~(0 <= ret.arg /\ ret.arg < row_count(M)) => ret.out = None

\* A Row of a transposed view of a matrix that is not square read a cell off
\* the diagonal: the cell the underlying matrix holds at the exchanged address.
C22_Witness ==
    /\ Viewing
    /\ ret.op = "row.get"
    /\ ret.index # ret.arg
    /\ row_count(M) # column_count(M)
    /\ ret.out.kind = "Some"
    /\ ret.out.item[2] = CellValue(M.underlay, ret.arg, ret.index)

(***************************************************************************)
(* C23.  On a matrix (or view) of R rows and C columns, under any          *)
(* interleaving of next and next_back, rows() yields Row accessors bound   *)
(* to 0, 1, ... from the front and to R-1, R-2, ... from the back, no      *)
(* index twice, every index in [0, R), and all R of them by the time it    *)
(* reports exhaustion; no next or next_back on it panics.  columns() does  *)
(* the same over [0, C).                                                   *)
(***************************************************************************)
\* The number of accessors the rows / columns iterator held runs over.
AccessorCount == IF it.kind = "rows" THEN row_count(M) ELSE column_count(M)

C23_EachIndexOnce ==
    (Running /\ it.kind \in {"rows", "columns"}) =>
        LET items == front \o rear
        IN  /\ IterCall => ret.out.kind # "Panic"
            /\ \A k \in 1..Len(front) : front[k] = <<k - 1>>
            /\ \A k \in 1..Len(rear) : rear[k] = <<AccessorCount - k>>
            /\ \A i \in 1..Len(items) : 0 <= items[i][1] /\ items[i][1] < AccessorCount
            /\ \A i, j \in 1..Len(items) : i # j => items[i] # items[j]
            /\ exhausted => Len(items) = AccessorCount
            /\ (IterCall /\ ret.out.kind = "Some") =>
                   acc = [kind |-> IF it.kind = "rows" THEN "row" ELSE "column",
                          index |-> ret.out.item[1]]

\* rows() of a view of three rows or more, drained from both ends.
C23_Witness ==
    /\ Viewing
    /\ it.kind = "rows"
    /\ row_count(M) >= 3
    /\ Len(front) >= 1 /\ Len(rear) >= 2
    /\ exhausted

(***************************************************************************)
(* C24.  On every matrix the constructors return, at either coordinate     *)
(* width, and on every transposed view of one, no next or next_back of any *)
(* iterator (addresses, iter, indexed_iter, a row's, a column's, rows,     *)
(* columns) and no Row::get or Column::get panics.                         *)
(***************************************************************************)
C24_Claim ==
    ret.op \in {"next", "next_back", "row.get", "column.get"} => ret.out.kind # "Panic"

(***************************************************************************)
(* C25.  For valid dimensions (both zero, or both positive) and every      *)
(* generator function f, Matrix::new(columns, rows, f) returns a matrix    *)
(* whose row_count and column_count are the inputs and whose direct-index  *)
(* read at every in-range address a is f(a); it returns Err for a negative *)
(* dimension and for exactly one zero dimension.  (Dimensions whose cells   *)
(* are more than one allocation holds are not counted as valid here.)      *)
(***************************************************************************)
C25_Claim ==
    ret.op = "Matrix::new" =>
        /\ (/\ (ret.columns = 0 /\ ret.rows = 0) \/ (ret.columns > 0 /\ ret.rows > 0)
            /\ ret.rows * ret.columns <= isize_MAX \div ret.size) =>
               /\ matrix.tag = "Ok"
               /\ row_count(M) = ret.rows
               /\ column_count(M) = ret.columns
               /\ \A r \in 0..(ret.rows - 1), c \in 0..(ret.columns - 1) :
                      LET cell == index(M, MatrixAddress(r, c))
                      IN  /\ cell.kind = "Some"
                          /\ cell.item[2] = factory_fn(ret.factory_fn, <<r, c>>)
        /\ (ret.columns < 0 \/ ret.rows < 0) => matrix.tag = "Err"
        /\ ((ret.columns = 0) # (ret.rows = 0)) => matrix.tag = "Err"

(***************************************************************************)
(* C26.  A clone of a dense matrix is equal to the original at the time of *)
(* cloning, and cloning leaves the original as it was; from then on every  *)
(* write to the clone leaves every cell and both counts of the original    *)
(* unchanged, and every write to the original leaves the clone unchanged.  *)
(***************************************************************************)
C26_IndependentClone ==
    [][/\ ret'.op = "clone" =>
              /\ copy'.tag = "Ok"
              /\ eq(copy'.m, matrix.m)
              /\ row_count(copy'.m) = row_count(matrix.m)
              /\ column_count(copy'.m) = column_count(matrix.m)
              /\ \A r \in RowNumbers(matrix.m), c \in ColumnNumbers(matrix.m) :
                     CellValue(copy'.m, r, c) = CellValue(matrix.m, r, c)
              /\ matrix' = matrix
       /\ ret'.op \in {"clone.get_mut", "clone.index_mut"} =>
              /\ matrix' = matrix
              /\ ret'.out.kind = "Some" =>
                     \A r \in RowNumbers(copy.m), c \in ColumnNumbers(copy.m) :
                         CellValue(copy'.m, r, c)
                             = IF MatrixAddress(r, c) = ret'.address THEN ret'.value
                               ELSE CellValue(copy.m, r, c)
       /\ (copy.tag = "Ok" /\ ret'.op \in {"get_mut", "index_mut"}) => copy' = copy]_vars

\* The matrix and its clone, both written to after the cloning, differ in a cell.
C26_Witness ==
    /\ Running
    /\ copy.tag = "Ok"
    /\ ret.op = "clone.index_mut" /\ ret.out.kind = "Some"
    /\ row_count(M) >= 2
    /\ \E r \in RowNumbers(M), c \in ColumnNumbers(M) :
           CellValue(M, r, c) = 1 /\ CellValue(copy.m, r, c) = 0
    /\ \E r \in RowNumbers(M), c \in ColumnNumbers(M) :
           CellValue(M, r, c) = 0 /\ CellValue(copy.m, r, c) = 1

(***************************************************************************)
(* What the properties of the cursors speak of.                            *)
(***************************************************************************)
\* The forward and the backward cursor of a bidirectional iterator.
CursorForward(i) ==
    IF i.kind \in {"row", "columns"} THEN i.column_cursor_forward ELSE i.row_cursor_forward

CursorBack(i) ==
    IF i.kind \in {"row", "columns"} THEN i.column_cursor_back ELSE i.row_cursor_back

\* The length of the axis the bidirectional iterator held runs over, on a matrix or a view.
AxisCount == IF it.kind \in {"row", "columns"} THEN column_count(M) ELSE row_count(M)

(***************************************************************************)
(* C27.  When next on a row's or a column's iterator yields the last       *)
(* remaining cell (the forward cursor equals the backward one), it sets    *)
(* terminated and does not advance the forward cursor; it advances the     *)
(* forward cursor, by one unit, only when the two cursors differ.          *)
(***************************************************************************)
C27_Claim ==
    [][(/\ CellIter
        /\ ~it.terminated
        /\ ret'.op = "next"
        /\ ret'.out.kind = "Some")
       => IF CursorForward(it) = CursorBack(it)
              THEN it'.terminated /\ CursorForward(it') = CursorForward(it)
          ELSE ~it'.terminated /\ CursorForward(it') = CursorForward(it) + unit]_vars

(***************************************************************************)
(* C28.  In every state reached by next / next_back calls on a row's, a    *)
(* column's, the rows or the columns iterator of a matrix the constructors *)
(* return (or of a view of one): while terminated is false,                *)
(* 0 <= forward cursor <= backward cursor <= axis length - 1, and the      *)
(* number of items not yet yielded is backward - forward + 1.              *)
(***************************************************************************)
C28_Cursors ==
    (BidiIter /\ ~it.terminated) =>
        /\ 0 <= CursorForward(it)
        /\ CursorForward(it) <= CursorBack(it)
        /\ CursorBack(it) <= AxisCount - 1
        /\ AxisCount - Yields = CursorBack(it) - CursorForward(it) + 1

\* A row's iterator that has yielded from both ends and has two cells or more left.
C28_Witness ==
    /\ BidiIter
    /\ it.kind = "row"
    /\ ~it.terminated
    /\ Len(front) >= 1 /\ Len(rear) >= 1
    /\ CursorForward(it) < CursorBack(it)

(***************************************************************************)
(* C29.  The all-columns iterator takes its initial terminated flag from   *)
(* row_count; for every matrix the constructors return and every           *)
(* transposed view of one, columns() is nevertheless created               *)
(* pre-terminated if and only if column_count is zero, and otherwise       *)
(* yields exactly column_count Column accessors.                           *)
(***************************************************************************)
C29_Claim ==
    /\ (matrix.tag = "Ok" /\ ret.op = "columns") =>
           /\ ret.out.kind = "Some"
           /\ it.kind = "columns"
           /\ it.terminated <=> row_count(M) = 0
           /\ it.terminated <=> column_count(M) = 0
    /\ (Running /\ it.kind = "columns") =>
           /\ Yields <= column_count(M)
           /\ exhausted => Yields = column_count(M)

(***************************************************************************)
(* C30.  A transposed view built over a transposed view of a matrix M      *)
(* behaves as M itself: it reports M's row_count and column_count, its     *)
(* get(a) returns M.get(a) for every address a, and a write through it at  *)
(* an in-range address a lands at a in M, M's other cells staying as they  *)
(* were.                                                                   *)
(***************************************************************************)
\* A view of a view is held after the step.
Nested == fault = "" /\ matrix'.tag = "Ok" /\ Views(matrix'.m) = 2

C30_Claim ==
    [][Nested =>
           LET V == matrix'.m
               B == V.underlay.underlay
               a == ret'.address
           IN  /\ row_count(V) = row_count(B)
               /\ column_count(V) = column_count(B)
               /\ ret'.op = "get" => ret'.out = get(B, a)
               /\ (ret'.op \in {"get_mut", "index_mut"} /\ InRangeOf(V, a.row, a.column)) =>
                      /\ fault' = ""
                      /\ \A r \in RowNumbers(B), c \in ColumnNumbers(B) :
                             CellValue(B, r, c)
                                 = IF r = a.row /\ c = a.column THEN ret'.value
                                   ELSE CellValue(M.underlay.underlay, r, c)]_vars

====
